---- MODULE Spec2Model ----
(***************************************************************************)
(* Terminal bridge of planwerk-editor: the server side of src/server.ts.   *)
(* One event loop runs the WebSocket handlers, the PTY callbacks and the   *)
(* file watcher's debounce timer; every action below is one callback run   *)
(* to completion.                                                          *)
(***************************************************************************)
EXTENDS Integers, Sequences, FiniteSets, TLC

\* ---------------------------------------------------------------- bounds
MaxProcs  == 3      \* PTY processes that can be spawned in one run
MaxConns  == 2      \* WebSocket connections that can be accepted in one run
MaxEvents == 6      \* callbacks dispatched by the event loop in one run
WindowTicks == 1    \* clock ticks that make up the debounce window of 300 ms
MaxStrLen == 2      \* code points in a string given to the encoders on their own
MaxWireEvents == 4  \* callbacks dispatched when messages arrive as bytes
MaxSocks == 2       \* WebSocket objects of the terminal panel that exist at once
MaxLoading == 2     \* calls of ensureTerminal that wait for the emulator module at once
ReconnectTicks == 1 \* clock ticks that make up the reconnect delay of 2000 ms

\* ------------------------------------------------------ program constants
DATA_BYTE    == 0
CONTROL_BYTE == 1
DefaultCols  == 80
DefaultRows  == 24

Pids    == 1..MaxProcs
Conns   == 1..MaxConns
\* Strings that travel as payloads are sequences of Unicode code points.
Chunks  == {<<104, 105>>}            \* output chunks a process produces: "hi"
Keys    == {<<108>>}                 \* payloads of inbound DATA frames: "l"
ColsIn  == {0, 120}                  \* cols of inbound resize frames (0: missing or falsy)
RowsIn  == {0, 40}                   \* rows of inbound resize frames (0: missing or falsy)
\* file names fs.watch reports: "a.md", "b.txt"
Files   == {<<97, 46, 109, 100>>, <<98, 46, 116, 120, 116>>}
\* the same with "d\a.md" and the null file name, for the watcher on its own
WatchedFiles == Files \cup {<<100, 92, 97, 46, 109, 100>>, <<>>}

\* The keys and the type names of control messages, as the strings they are.
TYPE == <<116, 121, 112, 101>>
FILE == <<102, 105, 108, 101>>
COLS == <<99, 111, 108, 115>>
ROWS == <<114, 111, 119, 115>>
START  == <<115, 116, 97, 114, 116>>
CLOSE  == <<99, 108, 111, 115, 101>>
RESIZE == <<114, 101, 115, 105, 122, 101>>
EXIT   == <<101, 120, 105, 116>>
SESSION_ACTIVE   == <<115, 101, 115, 115, 105, 111, 110, 45, 97, 99, 116, 105, 118, 101>>
SESSION_INACTIVE == <<115, 101, 115, 115, 105, 111, 110, 45, 105, 110, 97, 99, 116, 105, 118, 101>>
FILE_CHANGED     == <<102, 105, 108, 101, 45, 99, 104, 97, 110, 103, 101, 100>>
TypeNames == {START, CLOSE, RESIZE, EXIT, SESSION_ACTIVE, SESSION_INACTIVE, FILE_CHANGED}

\* Characters of the strings the encoders are given: h, e-acute, the euro
\* sign, the quote, the backslash and the line feed.
Alphabet == {104, 233, 8364, 34, 92, 10}
Strs == UNION {[1..k -> Alphabet] : k \in 0..MaxStrLen}

\* ----------------------------------------------------------------- state
VARIABLES
    currentPty,        \* server.ts:26  0 = null, else the handle of the Session's process
    activeWs,          \* server.ts:27  0 = null, else the Active Connection
    procs,             \* the processes the spawning primitive has created
    ready,             \* readyState of every WebSocket
    sent,              \* frames handed to ws.send, per connection, in order
    fileChangeTimer,   \* server.ts:149 0 = null, else the handle setTimeout returned last
    timers,            \* the timeouts setTimeout has created that are still pending
    nEvents,           \* number of callbacks dispatched so far
    last,              \* the callback dispatched last
    failed,            \* some pty.spawn call has thrown
    codec,             \* a message on its way through the encoder and the decoder
    panel,             \* part_003: state, refs and effect locals of the TerminalPanel
    socks,             \* readyState of the WebSocket objects the TerminalPanel created
    editor             \* part_001: the MarkdownEditor and the document it shows

vars == <<currentPty, activeWs, procs, ready, sent, fileChangeTimer, timers, nEvents, last,
          failed, codec, panel, socks, editor>>

\* The variables of the browser.
tabVars == <<panel, socks, editor>>

\* The server's mutable state as one value, so that the statements of a
\* handler compose in program order.
State == [currentPty |-> currentPty, activeWs |-> activeWs, procs |-> procs,
          ready |-> ready, sent |-> sent, failed |-> failed]

Commit(s) ==
    /\ currentPty' = s.currentPty
    /\ activeWs'   = s.activeWs
    /\ procs'      = s.procs
    /\ ready'      = s.ready
    /\ sent'       = s.sent
    /\ failed'     = s.failed
    /\ codec'      = codec
    /\ UNCHANGED tabVars

Event(op, c, p, ok) == [op |-> op, c |-> c, p |-> p, ok |-> ok]

Dispatch(op, c, p, ok) ==
    /\ nEvents < MaxEvents
    /\ nEvents' = nEvents + 1
    /\ last' = Event(op, c, p, ok)

\* ----------------------------------------------------------------- codec
\* A JS string is a sequence of code points; a Buffer is a sequence of bytes.

\* The UTF-8 bytes of one code point (below 65536).
utf8(cp) ==
    IF cp \in 55296..57343 THEN <<239, 191, 189>>      \* a lone surrogate: U+FFFD
    ELSE IF cp < 128 THEN <<cp>>
    ELSE IF cp < 2048 THEN <<192 + (cp \div 64), 128 + (cp % 64)>>
    ELSE <<224 + (cp \div 4096), 128 + ((cp \div 64) % 64), 128 + (cp % 64)>>

RECURSIVE utf8Bytes(_)
utf8Bytes(str) ==
    IF str = <<>> THEN <<>> ELSE utf8(Head(str)) \o utf8Bytes(Tail(str))

\* Buffer.byteLength counted in UTF-16 units instead of bytes.
byteLength_CharCount(str) == Len(str)

\* Buffer.byteLength(str)
byteLength(str) == Len(utf8Bytes(str))

\* Buffer.alloc(n)
alloc(n) == [i \in 1..n |-> 0]

\* buf.write(str, offset): the bytes of str from offset on, as far as buf reaches
write(buf, str, offset) ==
    LET b == utf8Bytes(str)
    IN  [i \in 1..Len(buf) |->
            IF i > offset /\ i - offset <= Len(b) THEN b[i - offset] ELSE buf[i]]

\* buf.toString(): UTF-8 decoding, U+FFFD for a byte that starts no sequence
RECURSIVE toString(_)
toString(b) ==
    IF b = <<>> THEN <<>>
    ELSE IF b[1] < 128 THEN <<b[1]>> \o toString(Tail(b))
    ELSE IF b[1] \in 192..223 /\ Len(b) >= 2 /\ b[2] \in 128..191
         THEN <<(b[1] - 192) * 64 + (b[2] - 128)>> \o toString(SubSeq(b, 3, Len(b)))
    ELSE IF b[1] \in 224..239 /\ Len(b) >= 3 /\ b[2] \in 128..191 /\ b[3] \in 128..191
         THEN <<(b[1] - 224) * 4096 + (b[2] - 128) * 64 + (b[3] - 128)>>
              \o toString(SubSeq(b, 4, Len(b)))
    ELSE <<65533>> \o toString(Tail(b))

\* A JSON object is the sequence of its fields; a field holds a string or a
\* number.
StrField(k, s) == [k |-> k, t |-> "s", s |-> s, n |-> 0]
NumField(k, n) == [k |-> k, t |-> "n", s |-> <<>>, n |-> n]
Undefined      == [k |-> <<>>, t |-> "u", s |-> <<>>, n |-> 0]

\* JSON.stringify of a string: quote, backslash and newline are escaped
RECURSIVE jsonEscape(_)
jsonEscape(s) ==
    IF s = <<>> THEN <<>>
    ELSE (IF Head(s) \in {34, 92} THEN <<92, Head(s)>>
          ELSE IF Head(s) = 10 THEN <<92, 110>>
          ELSE <<Head(s)>>) \o jsonEscape(Tail(s))

jsonString(s) == <<34>> \o jsonEscape(s) \o <<34>>

RECURSIVE jsonNumber(_)
jsonNumber(n) ==
    IF n < 10 THEN <<48 + n>> ELSE jsonNumber(n \div 10) \o <<48 + (n % 10)>>

jsonField(f) ==
    jsonString(f.k) \o <<58>> \o (IF f.t = "s" THEN jsonString(f.s) ELSE jsonNumber(f.n))

RECURSIVE jsonFields(_)
jsonFields(obj) ==
    IF obj = <<>> THEN <<>>
    ELSE IF Len(obj) = 1 THEN jsonField(obj[1])
    ELSE jsonField(obj[1]) \o <<44>> \o jsonFields(Tail(obj))

\* JSON.stringify(obj)
stringify(obj) == <<123>> \o jsonFields(obj) \o <<125>>

\* JSON.parse: ok tells whether the text parsed to an object (anything else
\* throws, or has no type, and the handler drops it either way).
ParseError == [ok |-> FALSE, obj |-> <<>>]

\* The string literal that starts at t[i] (a quote): its value and the index
\* after its closing quote; at = 0 when the literal is malformed.
RECURSIVE scanString(_, _, _)
scanString(t, j, acc) ==
    IF j > Len(t) \/ t[j] < 32 THEN [at |-> 0, s |-> <<>>]
    ELSE IF t[j] = 34 THEN [at |-> j + 1, s |-> acc]
    ELSE IF t[j] # 92 THEN scanString(t, j + 1, Append(acc, t[j]))
    ELSE IF j + 1 > Len(t) THEN [at |-> 0, s |-> <<>>]
    ELSE IF t[j + 1] \in {34, 92, 47} THEN scanString(t, j + 2, Append(acc, t[j + 1]))
    ELSE IF t[j + 1] = 110 THEN scanString(t, j + 2, Append(acc, 10))
    ELSE [at |-> 0, s |-> <<>>]

RECURSIVE scanNumber(_, _, _)
scanNumber(t, j, acc) ==
    IF j <= Len(t) /\ t[j] \in 48..57
    THEN scanNumber(t, j + 1, acc * 10 + (t[j] - 48))
    ELSE [at |-> j, n |-> acc]

RECURSIVE parseFields(_, _, _)
parseFields(t, i, acc) ==
    IF i > Len(t) \/ t[i] # 34 THEN ParseError
    ELSE LET key == scanString(t, i + 1, <<>>)
         IN  IF key.at = 0 \/ key.at + 1 > Len(t) \/ t[key.at] # 58 THEN ParseError
             ELSE LET v   == key.at + 1
                      str == scanString(t, v + 1, <<>>)
                      num == scanNumber(t, v, 0)
                      isS == t[v] = 34 /\ str.at # 0
                      isN == t[v] \in 48..57 /\ (t[v] # 48 \/ num.at = v + 1)
                      nxt == IF isS THEN str.at ELSE num.at
                      fld == IF isS THEN StrField(key.s, str.s) ELSE NumField(key.s, num.n)
                  IN  IF ~(isS \/ isN) \/ nxt > Len(t) THEN ParseError
                      ELSE IF t[nxt] = 44 THEN parseFields(t, nxt + 1, Append(acc, fld))
                      ELSE IF t[nxt] = 125 /\ nxt = Len(t)
                           THEN [ok |-> TRUE, obj |-> Append(acc, fld)]
                      ELSE ParseError

parse(t) ==
    IF Len(t) < 2 \/ t[1] # 123 THEN ParseError
    ELSE IF t = <<123, 125>> THEN [ok |-> TRUE, obj |-> <<>>]
    ELSE parseFields(t, 2, <<>>)

\* msg[key]: the last field of that name, or undefined
get(obj, key) ==
    LET at == {i \in 1..Len(obj) : obj[i].k = key}
    IN  IF at = {} THEN Undefined
        ELSE obj[CHOOSE i \in at : \A j \in at : j <= i]

\* The payload sendData builds: server.ts:40-42
dataMessage(data) ==
    LET payload == alloc(1 + byteLength(data))
    IN  write([payload EXCEPT ![1] = DATA_BYTE], data, 1)

\* The payload sendControl builds: server.ts:31-34
controlMessage(obj) ==
    LET msg     == stringify(obj)
        payload == alloc(1 + byteLength(msg))
    IN  write([payload EXCEPT ![1] = CONTROL_BYTE], msg, 1)

\* What the message handler reads from a message: server.ts:115-125
decode(raw) ==
    IF Len(raw) = 0
    THEN [type |-> -1, str |-> <<>>, ok |-> FALSE, obj |-> <<>>]
    ELSE LET type == raw[1]
             body == Tail(raw)
             msg  == parse(toString(body))
         IN  IF type = DATA_BYTE
             THEN [type |-> type, str |-> toString(body), ok |-> TRUE, obj |-> <<>>]
             ELSE IF type = CONTROL_BYTE
             THEN [type |-> type, str |-> <<>>, ok |-> msg.ok, obj |-> msg.obj]
             ELSE [type |-> type, str |-> <<>>, ok |-> FALSE, obj |-> <<>>]

\* No message is in the codec.
NoMessage == [phase |-> "idle", kind |-> 0, str |-> <<>>, obj |-> <<>>, wire |-> <<>>,
              out |-> decode(<<>>)]

\* ---------------------------------------------------------------- frames
ControlFrame(type, file) == [kind |-> CONTROL_BYTE, type |-> type, body |-> file]
DataFrame(data)          == [kind |-> DATA_BYTE, type |-> "", body |-> data]

Ctl(type) == ControlFrame(type, <<>>)

sendControl(s, ws, frame) ==
    IF s.ready[ws] # "open" THEN s
    ELSE [s EXCEPT !.sent[ws] = Append(@, frame)]

sendData(s, ws, data) ==
    IF s.ready[ws] # "open" THEN s
    ELSE [s EXCEPT !.sent[ws] = Append(@, DataFrame(data))]

\* --------------------------------------------------------------- session
NoProc == [st |-> "none", killed |-> FALSE, cols |-> 0, rows |-> 0, input |-> <<>>]

FreePids(s) == {p \in Pids : s.procs[p].st = "none"}
NextPid(s)  == CHOOSE p \in FreePids(s) : \A q \in FreePids(s) : p <= q

\* The exit callback clearing the Session without telling the client.
onExit_NoFrame(s) == [s EXCEPT !.currentPty = 0]

\* The exit callback registered at server.ts:70.
onExit(s) ==
    LET s1 == [s EXCEPT !.currentPty = 0]
    IN  IF s1.activeWs # 0 THEN sendControl(s1, s1.activeWs, Ctl("exit")) ELSE s1

\* The data callback sending every chunk twice.
onData_Twice(s, data) ==
    IF s.activeWs # 0
    THEN sendData(sendData(s, s.activeWs, data), s.activeWs, data)
    ELSE s

\* The data callback sending the chunk to every open connection.
onData_Broadcast(s, data) ==
    [s EXCEPT !.sent = [c \in Conns |-> IF s.ready[c] = "open"
                                        THEN Append(s.sent[c], DataFrame(data))
                                        ELSE s.sent[c]]]

\* The data callback registered at server.ts:66.
onData(s, data) ==
    IF s.activeWs # 0 THEN sendData(s, s.activeWs, data) ELSE s

\* spawnSession without the "already running" return.
spawnSession_Respawns(s, ok) ==
    IF FreePids(s) = {} \/ ~ok THEN s
    ELSE LET p == NextPid(s)
         IN  [s EXCEPT !.currentPty = p,
                       !.procs[p] = [st |-> "alive", killed |-> FALSE,
                                     cols |-> DefaultCols, rows |-> DefaultRows,
                                     input |-> <<>>]]

\* spawnSession that keeps a handle although pty.spawn threw.
spawnSession_KeepsFailedHandle(s, ok) ==
    IF s.currentPty # 0 THEN s
    ELSE IF ~ok
         THEN LET s1 == [s EXCEPT !.failed = TRUE, !.currentPty = NextPid(s)]
              IN  IF s1.activeWs # 0 THEN sendControl(s1, s1.activeWs, Ctl("exit")) ELSE s1
         ELSE LET p == NextPid(s)
              IN  [s EXCEPT !.currentPty = p,
                            !.procs[p] = [st |-> "alive", killed |-> FALSE,
                                          cols |-> DefaultCols, rows |-> DefaultRows,
                                          input |-> <<>>]]

spawnSession(s, ok) ==
    IF s.currentPty # 0 THEN s
    ELSE IF ~ok
         THEN LET s1 == [s EXCEPT !.failed = TRUE]
              IN  IF s1.activeWs # 0 THEN sendControl(s1, s1.activeWs, Ctl("exit")) ELSE s1
         ELSE LET p == NextPid(s)
              IN  [s EXCEPT !.currentPty = p,
                            !.procs[p] = [st |-> "alive", killed |-> FALSE,
                                          cols |-> DefaultCols, rows |-> DefaultRows,
                                          input |-> <<>>]]

\* pty.kill(): the signal is sent; the exit callback runs inside kill()
\* (sync, as src/__mocks__/node-pty.ts does) or is dispatched later.
kill(s, p, sync) ==
    IF s.procs[p].killed THEN s
    ELSE IF sync
         THEN onExit([s EXCEPT !.procs[p].killed = TRUE, !.procs[p].st = "exited"])
         ELSE [s EXCEPT !.procs[p].killed = TRUE]

\* killSession without "currentPty = null".
killSession_KeepsHandle(s, sync) ==
    IF s.currentPty = 0 THEN s
    ELSE kill(s, s.currentPty, sync)

killSession(s, sync) ==
    IF s.currentPty = 0 THEN s
    ELSE [kill(s, s.currentPty, sync) EXCEPT !.currentPty = 0]

\* ------------------------------------------------------------ connection
FreeConns == {c \in Conns : ready[c] = "none"}
NextConn  == CHOOSE c \in FreeConns : \A d \in FreeConns : c <= d

\* The connection handler with the state report's test inverted.
onConnection_WrongReport(s, ws) ==
    LET s1 == [s EXCEPT !.ready[ws] = "open", !.activeWs = ws]
    IN  sendControl(s1, ws, Ctl(IF s1.currentPty = 0 THEN "session-active"
                                                     ELSE "session-inactive"))

onConnection(s, ws) ==
    LET s1 == [s EXCEPT !.ready[ws] = "open", !.activeWs = ws]
    IN  sendControl(s1, ws, Ctl(IF s1.currentPty # 0 THEN "session-active"
                                                     ELSE "session-inactive"))

\* The close handler without the "activeWs === ws" test.
onClose_AlwaysClears(s, ws) ==
    [s EXCEPT !.ready[ws] = "closed", !.activeWs = 0]

\* The close handler ending the Session together with its connection.
onClose_KillsSession(s, ws) ==
    LET s1 == [s EXCEPT !.ready[ws] = "closed"]
    IN  IF s1.activeWs = ws THEN killSession([s1 EXCEPT !.activeWs = 0], FALSE) ELSE s1

onClose(s, ws) ==
    LET s1 == [s EXCEPT !.ready[ws] = "closed"]
    IN  IF s1.activeWs = ws THEN [s1 EXCEPT !.activeWs = 0] ELSE s1

onStart(s, ws, ok) ==
    LET s1 == spawnSession(s, ok)
    IN  sendControl(s1, ws, Ctl(IF s1.currentPty # 0 THEN "session-active" ELSE "exit"))

\* The close request answered only when a Session was there to stop.
onCloseRequest_SilentWhenAbsent(s, ws, sync) ==
    IF s.currentPty = 0 THEN s
    ELSE sendControl(killSession(s, sync), ws, Ctl("session-inactive"))

onCloseRequest(s, ws, sync) ==
    sendControl(killSession(s, sync), ws, Ctl("session-inactive"))

\* A DATA frame that starts a Session when there is none.
onDataFrame_SpawnsWhenAbsent(s, body) ==
    IF s.currentPty # 0
    THEN [s EXCEPT !.procs[s.currentPty].input = Append(@, body)]
    ELSE spawnSession(s, TRUE)

\* DATA frame: server.ts:121-122
onDataFrame(s, body) ==
    IF s.currentPty # 0
    THEN [s EXCEPT !.procs[s.currentPty].input = Append(@, body)]
    ELSE s

\* resize without the test that cols and rows are truthy.
onResize_NoTruthTest(s, cols, rows) ==
    IF s.currentPty # 0
    THEN [s EXCEPT !.procs[s.currentPty].cols = cols, !.procs[s.currentPty].rows = rows]
    ELSE s

\* {type:"resize", cols, rows}: server.ts:132-134
onResize(s, cols, rows) ==
    IF cols # 0 /\ rows # 0 /\ s.currentPty # 0
    THEN [s EXCEPT !.procs[s.currentPty].cols = cols, !.procs[s.currentPty].rows = rows]
    ELSE s

\* A number-valued field as the handler uses it; a missing field is falsy.
num(f) == IF f.t = "n" THEN f.n ELSE 0

\* The message handler without its catch: a control message that does not
\* parse ends the connection.
onMessage_NoCatch(s, ws, raw, ok, sync) ==
    LET m  == decode(raw)
        ty == get(m.obj, TYPE)
    IN  IF Len(raw) = 0 THEN s
        ELSE IF m.type = DATA_BYTE THEN onDataFrame(s, m.str)
        ELSE IF m.type = CONTROL_BYTE /\ ~m.ok THEN [s EXCEPT !.ready[ws] = "closing"]
        ELSE IF m.type = CONTROL_BYTE
        THEN IF ty.t = "s" /\ ty.s = START THEN onStart(s, ws, ok)
             ELSE IF ty.t = "s" /\ ty.s = CLOSE THEN onCloseRequest(s, ws, sync)
             ELSE IF ty.t = "s" /\ ty.s = RESIZE
                  THEN onResize(s, num(get(m.obj, COLS)), num(get(m.obj, ROWS)))
             ELSE s
        ELSE s

\* The message handler: server.ts:114-139
onMessage(s, ws, raw, ok, sync) ==
    LET m  == decode(raw)
        ty == get(m.obj, TYPE)
    IN  IF Len(raw) = 0 THEN s
        ELSE IF m.type = DATA_BYTE THEN onDataFrame(s, m.str)
        ELSE IF m.type = CONTROL_BYTE /\ m.ok
        THEN IF ty.t = "s" /\ ty.s = START THEN onStart(s, ws, ok)
             ELSE IF ty.t = "s" /\ ty.s = CLOSE THEN onCloseRequest(s, ws, sync)
             ELSE IF ty.t = "s" /\ ty.s = RESIZE
                  THEN onResize(s, num(get(m.obj, COLS)), num(get(m.obj, ROWS)))
             ELSE s
        ELSE s

\* What a message asks for, for the record of the dispatched callback.
request(raw) ==
    LET m  == decode(raw)
        ty == get(m.obj, TYPE)
    IN  IF Len(raw) > 0 /\ m.type = DATA_BYTE THEN "input"
        ELSE IF Len(raw) > 0 /\ m.type = CONTROL_BYTE /\ m.ok /\ ty.t = "s" /\ ty.s = START
             THEN "start"
        ELSE IF Len(raw) > 0 /\ m.type = CONTROL_BYTE /\ m.ok /\ ty.t = "s" /\ ty.s = CLOSE
             THEN "close"
        ELSE IF Len(raw) > 0 /\ m.type = CONTROL_BYTE /\ m.ok /\ ty.t = "s" /\ ty.s = RESIZE
             THEN "resize"
        ELSE "ignored"

\* ---------------------------------------------------------------- watcher
\* filename.endsWith(".md")
endsWithMd(f) == Len(f) >= 3 /\ SubSeq(f, Len(f) - 2, Len(f)) = <<46, 109, 100>>

\* filename.replace(/\\/g, "/")
slashes(f) == [i \in 1..Len(f) |-> IF f[i] = 92 THEN 47 ELSE f[i]]

\* The watcher's handle and the runtime's pending timeouts as one value;
\* unheard tells whether the server has no Active Connection now.
Watch == [handle |-> fileChangeTimer, pending |-> timers, unheard |-> activeWs = 0]

\* clearTimeout(h): a pending timeout is removed, a fired one is left alone.
clearTimeout(pending, h) == {t \in pending : t.id # h}

\* setTimeout hands out a handle no pending timeout has.
NewTimer(pending) ==
    CHOOSE n \in 1..(Cardinality(pending) + 1) : \A t \in pending : t.id # n

\* The fs.watch callback without clearTimeout.
onWatch_NoClear(w, f) ==
    IF Len(f) = 0 \/ ~endsWithMd(f) THEN w
    ELSE LET id == NewTimer(w.pending)
         IN  [w EXCEPT !.handle = id,
                       !.pending = @ \cup {[id |-> id, file |-> f, left |-> WindowTicks,
                                            unheard |-> w.unheard]}]

\* The fs.watch callback: server.ts:150-158
onWatch(w, f) ==
    IF Len(f) = 0 \/ ~endsWithMd(f) THEN w
    ELSE LET rest == IF w.handle # 0 THEN clearTimeout(w.pending, w.handle) ELSE w.pending
             id   == NewTimer(rest)
         IN  [w EXCEPT !.handle = id,
                       !.pending = rest \cup {[id |-> id, file |-> f, left |-> WindowTicks,
                                                unheard |-> w.unheard]}]

\* The timer's callback sending to every open socket instead of activeWs.
onTimer_Broadcast(s, f) ==
    [s EXCEPT !.sent = [c \in Conns |->
        IF s.ready[c] = "open"
        THEN Append(s.sent[c], ControlFrame("file-changed", slashes(f)))
        ELSE s.sent[c]]]

\* The debounce timer's callback: server.ts:154-158
onTimer(s, f) ==
    IF s.activeWs # 0
    THEN sendControl(s, s.activeWs, ControlFrame("file-changed", slashes(f)))
    ELSE s

\* ----------------------------------------------------------------- editor
\* MarkdownEditor (part_001).  Texts: two the file may hold on disk when it
\* is changed from outside, two the user may type.
DiskTexts == {"a", "b"}
UserTexts == {"u1", "u2"}

\* The editor after its first render: it shows the content prop, nothing is
\* edited, no save and no refresh is under way.  synced is the text last
\* loaded from, or saved to, the server.
Editor0 == [dirtyRef |-> FALSE, saving |-> FALSE, markdown |-> "a", refresh |-> FALSE,
            disk |-> "a", content |-> "a", prevContentRef |-> "a", doc |-> "a",
            synced |-> "a", refreshes |-> 0]

\* The "docs-file-changed" handler: part_001:72-77
onDocsFileChanged(e) ==
    IF e.dirtyRef THEN e ELSE [e EXCEPT !.refresh = TRUE, !.refreshes = 1]

\* The effect on the content prop: part_001:84-91
onContent(e, content) ==
    IF content # e.prevContentRef
    THEN IF ~e.dirtyRef
         THEN [e EXCEPT !.content = content, !.prevContentRef = content,
                        !.doc = content, !.synced = content]
         ELSE [e EXCEPT !.content = content, !.prevContentRef = content]
    ELSE [e EXCEPT !.content = content]

\* handleChange: part_001:139-142
handleChange(e, text) == [e EXCEPT !.dirtyRef = TRUE, !.doc = text]

\* handleSave up to its await: part_001:93-104
handleSave(e) == [e EXCEPT !.saving = TRUE, !.markdown = e.doc]

\* handleSave after its await: part_001:105-113
onSaved(e, ok) ==
    IF ok
    THEN [e EXCEPT !.saving = FALSE, !.dirtyRef = FALSE, !.disk = e.markdown,
                   !.synced = e.markdown]
    ELSE [e EXCEPT !.saving = FALSE]

\* ------------------------------------------------------------------ panel
\* TerminalPanel (part_003).
Socks == 1..MaxSocks

\* The component before its effects have run.  out, wrote, events and op
\* record what the handler that ran last did: the frames it sent, whether it
\* wrote a DATA payload to an emulator, the UI events it dispatched.
\* unmounted tells that React has unmounted the component.
Panel0 == [unmounted |-> FALSE, disposed |-> FALSE, reconnectTimer |-> 0, pending |-> {}, wsRef |-> 0,
           sessionActive |-> FALSE, connected |-> FALSE, containerRef |-> FALSE,
           termRef |-> FALSE, fitAddonRef |-> FALSE, resizeObserverRef |-> FALSE,
           termModulesRef |-> FALSE, loading |-> 0, terms |-> 0, observers |-> 0,
           out |-> <<>>, wrote |-> FALSE, events |-> 0, op |-> "none"]

\* The browser's state as one value, so that the statements of a handler
\* compose in program order.
Tab == [panel |-> panel, socks |-> socks, editor |-> editor]

Show(t) ==
    /\ panel'  = t.panel
    /\ socks'  = t.socks
    /\ editor' = t.editor
    /\ UNCHANGED <<currentPty, activeWs, procs, ready, sent, fileChangeTimer, timers, nEvents,
                   last, failed, codec>>

\* A handler starts: what the previous one did is forgotten.
Run(t, op) == [t EXCEPT !.panel.out = <<>>, !.panel.wrote = FALSE, !.panel.events = 0,
                        !.panel.op = op, !.editor.refreshes = 0]

FreeSocks(t) == {k \in Socks : t.socks[k] = "none"}
NewSock(t)   == CHOOSE k \in FreeSocks(t) : \A j \in FreeSocks(t) : k <= j

\* sendControl of the panel: part_003:12-19
panelSend(t, ws, frame) ==
    IF t.socks[ws] # "open" THEN t ELSE [t EXCEPT !.panel.out = Append(@, frame)]

\* connect: part_003:61-67
connect(t) ==
    IF t.panel.disposed THEN t
    ELSE LET ws == NewSock(t)
         IN  [t EXCEPT !.socks[ws] = "connecting", !.panel.wsRef = ws]

\* ws.onopen: part_003:69-72
onopen(t) ==
    IF t.panel.disposed THEN t ELSE [t EXCEPT !.panel.connected = TRUE]

\* ensureTerminal after its await, without the second test of termRef.
construct_NoRecheck(t) ==
    IF ~t.panel.containerRef THEN t
    ELSE [t EXCEPT !.panel.termRef = TRUE, !.panel.fitAddonRef = TRUE,
                   !.panel.resizeObserverRef = TRUE,
                   !.panel.terms = @ + 1, !.panel.observers = @ + 1]

\* ensureTerminal from its second test on: part_003:134-184
construct(t) ==
    IF ~t.panel.containerRef \/ t.panel.termRef THEN t
    ELSE [t EXCEPT !.panel.termRef = TRUE, !.panel.fitAddonRef = TRUE,
                   !.panel.resizeObserverRef = TRUE,
                   !.panel.terms = @ + 1, !.panel.observers = @ + 1]

\* ensureTerminal up to its await: part_003:123-132.  With the modules at
\* hand there is no await and the call runs to its end at once.
ensureTerminal(t) ==
    IF t.panel.termRef THEN t
    ELSE IF ~t.panel.termModulesRef THEN [t EXCEPT !.panel.loading = @ + 1]
    ELSE construct(t)

\* ensureTerminal resumed when the modules have loaded: part_003:131-184
resume(t) ==
    construct([t EXCEPT !.panel.termModulesRef = TRUE, !.panel.loading = @ - 1])

\* ws.onmessage that takes down the emulator when the Session has ended.
onmessage_DisposesOnEnd(t, frame) ==
    IF frame.kind = DATA_BYTE THEN [t EXCEPT !.panel.wrote = t.panel.termRef]
    ELSE IF frame.type = "session-active"
    THEN ensureTerminal([t EXCEPT !.panel.sessionActive = TRUE])
    ELSE IF frame.type \in {"session-inactive", "exit"}
    THEN [t EXCEPT !.panel.sessionActive = FALSE, !.panel.termRef = FALSE,
                   !.panel.fitAddonRef = FALSE, !.panel.resizeObserverRef = FALSE,
                   !.panel.terms = 0, !.panel.observers = 0]
    ELSE IF frame.type = "file-changed"
    THEN [t EXCEPT !.panel.events = @ + 1, !.editor = onDocsFileChanged(t.editor)]
    ELSE t

\* ws.onmessage: part_003:74-97
onmessage(t, frame) ==
    IF frame.kind = DATA_BYTE THEN [t EXCEPT !.panel.wrote = t.panel.termRef]
    ELSE IF frame.type = "session-active"
    THEN ensureTerminal([t EXCEPT !.panel.sessionActive = TRUE])
    ELSE IF frame.type \in {"session-inactive", "exit"}
    THEN [t EXCEPT !.panel.sessionActive = FALSE]
    ELSE IF frame.type = "file-changed"
    THEN [t EXCEPT !.panel.events = @ + 1, !.editor = onDocsFileChanged(t.editor)]
    ELSE t

\* ws.onclose that reconnects at once and, when the delay is over, again.
onclose_Eager(t) ==
    IF t.panel.disposed THEN t
    ELSE LET id == NewTimer(t.panel.pending)
             t1 == [t EXCEPT !.panel.connected = FALSE, !.panel.wsRef = 0,
                             !.panel.reconnectTimer = id,
                             !.panel.pending = @ \cup {[id |-> id, left |-> ReconnectTicks]}]
         IN  connect(t1)

\* ws.onclose that gives up.
onclose_NoRetry(t) ==
    IF t.panel.disposed THEN t
    ELSE [t EXCEPT !.panel.connected = FALSE, !.panel.wsRef = 0]

\* ws.onclose: part_003:99-105
onclose(t) ==
    IF t.panel.disposed THEN t
    ELSE LET id == NewTimer(t.panel.pending)
         IN  [t EXCEPT !.panel.connected = FALSE, !.panel.wsRef = 0,
                       !.panel.reconnectTimer = id,
                       !.panel.pending = @ \cup {[id |-> id, left |-> ReconnectTicks]}]

\* ws.close(): a socket that is connecting or open starts to close.
close(t, ws) ==
    IF ws # 0 /\ t.socks[ws] \in {"connecting", "open"}
    THEN [t EXCEPT !.socks[ws] = "closing"] ELSE t

\* The cleanup that forgets to set disposed.
cleanup_ForgetsFlag(t) ==
    LET t1 == [t EXCEPT !.panel.pending = clearTimeout(@, t.panel.reconnectTimer)]
    IN  [close(t1, t1.panel.wsRef) EXCEPT !.panel.wsRef = 0]

\* The cleanup of the connection effect: part_003:114-119
cleanup(t) ==
    LET t1 == [t EXCEPT !.panel.disposed = TRUE,
                        !.panel.pending = clearTimeout(@, t.panel.reconnectTimer)]
    IN  [close(t1, t1.panel.wsRef) EXCEPT !.panel.wsRef = 0]

\* handleStart: part_003:187-192
handleStart(t) ==
    LET ws == t.panel.wsRef
    IN  IF ws = 0 \/ t.socks[ws] # "open" THEN t ELSE panelSend(t, ws, Ctl("start"))

\* handleStop that waits for the server's answer before it cleans up.
handleStop_KeepsTerminal(t) ==
    LET ws == t.panel.wsRef
    IN  IF ws = 0 \/ t.socks[ws] # "open" THEN t ELSE panelSend(t, ws, Ctl("close"))

\* handleStop: part_003:194-205
handleStop(t) ==
    LET ws == t.panel.wsRef
    IN  IF ws = 0 \/ t.socks[ws] # "open" THEN t
        ELSE [panelSend(t, ws, Ctl("close")) EXCEPT
                 !.panel.observers = IF t.panel.resizeObserverRef THEN @ - 1 ELSE @,
                 !.panel.resizeObserverRef = FALSE,
                 !.panel.terms = IF t.panel.termRef THEN @ - 1 ELSE @,
                 !.panel.termRef = FALSE,
                 !.panel.fitAddonRef = FALSE]

\* term.onData: part_003:162-171
onKey(t, data) ==
    LET ws == t.panel.wsRef
    IN  IF ws # 0 /\ t.socks[ws] = "open"
        THEN [t EXCEPT !.panel.out = Append(@, DataFrame(data))] ELSE t

\* The ResizeObserver callback: part_003:174-182
onObserved(t) ==
    LET ws == t.panel.wsRef
    IN  IF ws # 0 /\ t.socks[ws] = "open" THEN panelSend(t, ws, Ctl("resize")) ELSE t

\* ---------------------------------------------------------------- actions
Init ==
    /\ currentPty = 0
    /\ activeWs = 0
    /\ procs = [p \in Pids |-> NoProc]
    /\ ready = [c \in Conns |-> "none"]
    /\ sent = [c \in Conns |-> <<>>]
    /\ fileChangeTimer = 0
    /\ timers = {}
    /\ nEvents = 0
    /\ last = Event("init", 0, 0, TRUE)
    /\ failed = FALSE
    /\ codec = NoMessage
    /\ panel = Panel0
    /\ socks = [k \in Socks |-> "none"]
    /\ editor = Editor0

\* wss.on("connection")
Connection ==
    /\ FreeConns # {}
    /\ Dispatch("connection", NextConn, 0, TRUE)
    /\ Commit(onConnection(State, NextConn))
    /\ UNCHANGED <<fileChangeTimer, timers>>

\* The transport starts closing a socket: readyState leaves OPEN before the
\* "close" event is dispatched.
Closing(c) ==
    /\ ready[c] = "open"
    /\ nEvents < MaxEvents
    /\ ready' = [ready EXCEPT ![c] = "closing"]
    /\ UNCHANGED <<currentPty, activeWs, procs, sent, fileChangeTimer, timers, nEvents, last,
                   failed, codec, panel, socks, editor>>

\* ws.on("close")
Close(c) ==
    /\ ready[c] = "closing"
    /\ Dispatch("wsclose", c, 0, TRUE)
    /\ Commit(onClose(State, c))
    /\ UNCHANGED <<fileChangeTimer, timers>>

\* ws.on("message") with {type:"start"}
MsgStart(c, ok) ==
    /\ ready[c] = "open"
    /\ currentPty = 0 /\ ok => FreePids(State) # {}
    /\ Dispatch("start", c, currentPty, ok \/ currentPty # 0)
    /\ Commit(onStart(State, c, ok))
    /\ UNCHANGED <<fileChangeTimer, timers>>

\* ws.on("message") with {type:"close"}
MsgClose(c, sync) ==
    /\ ready[c] = "open"
    /\ Dispatch("close", c, currentPty, sync)
    /\ Commit(onCloseRequest(State, c, sync))
    /\ UNCHANGED <<fileChangeTimer, timers>>

\* ws.on("message") with a DATA frame
MsgData(c, body) ==
    /\ ready[c] = "open"
    /\ Dispatch("input", c, currentPty, TRUE)
    /\ Commit(onDataFrame(State, body))
    /\ UNCHANGED <<fileChangeTimer, timers>>

\* ws.on("message") with {type:"resize"}
MsgResize(c, cols, rows) ==
    /\ ready[c] = "open"
    /\ Dispatch("resize", c, currentPty, cols # 0 /\ rows # 0)
    /\ Commit(onResize(State, cols, rows))
    /\ UNCHANGED <<fileChangeTimer, timers>>

\* ws.on("message") with an empty message, an unknown discriminant, malformed
\* JSON or an unrecognized type: nothing is done.
MsgIgnored(c) ==
    /\ ready[c] = "open"
    /\ Dispatch("ignored", c, currentPty, TRUE)
    /\ UNCHANGED <<currentPty, activeWs, procs, ready, sent, fileChangeTimer, timers, failed,
                   codec, panel, socks, editor>>

\* fs.watch reports a change of file f.
FsWatch(f) ==
    /\ Dispatch("watch", 0, 0, endsWithMd(f))
    /\ fileChangeTimer' = onWatch(Watch, f).handle
    /\ timers' = onWatch(Watch, f).pending
    /\ UNCHANGED <<currentPty, activeWs, procs, ready, sent, failed, codec, panel, socks, editor>>

\* The clock advances by one tick; a timeout that is due runs before the
\* clock advances again.
Tick ==
    /\ timers # {}
    /\ \A t \in timers : t.left > 0
    /\ timers' = {[t EXCEPT !.left = @ - 1] : t \in timers}
    /\ UNCHANGED <<currentPty, activeWs, procs, ready, sent, fileChangeTimer, nEvents, last,
                   failed, codec, panel, socks, editor>>

\* A timeout is due: its callback is dispatched.
TimerFire(t) ==
    /\ t \in timers /\ t.left = 0
    /\ Dispatch("timer", 0, 0, TRUE)
    /\ Commit(onTimer(State, t.file))
    /\ timers' = timers \ {t}
    /\ UNCHANGED fileChangeTimer

\* A process ends: its exit callback is dispatched.
PtyExit(p) ==
    /\ procs[p].st = "alive"
    /\ Dispatch("exit", 0, p, TRUE)
    /\ Commit(onExit([State EXCEPT !.procs[p].st = "exited"]))
    /\ UNCHANGED <<fileChangeTimer, timers>>

\* A process produces output: its data callback is dispatched.
PtyData(p, data) ==
    /\ procs[p].st = "alive"
    /\ Dispatch("data", 0, p, TRUE)
    /\ Commit(onData(State, data))
    /\ UNCHANGED <<fileChangeTimer, timers>>

Next ==
    \/ Connection
    \/ \E c \in Conns : Closing(c)
    \/ \E c \in Conns : Close(c)
    \/ \E c \in Conns, ok \in BOOLEAN : MsgStart(c, ok)
    \/ \E c \in Conns, sync \in BOOLEAN : MsgClose(c, sync)
    \/ \E c \in Conns, k \in Keys : MsgData(c, k)
    \/ \E c \in Conns, cols \in ColsIn, rows \in RowsIn : MsgResize(c, cols, rows)
    \/ \E c \in Conns : MsgIgnored(c)
    \/ \E f \in Files : FsWatch(f)
    \/ Tick
    \/ \E t \in timers : TimerFire(t)
    \/ \E p \in Pids : PtyExit(p)
    \/ \E p \in Pids, d \in Chunks : PtyData(p, d)

Spec == Init /\ [][Next]_vars

\* The watcher and the connections on their own.
NextWatch ==
    \/ Connection
    \/ \E c \in Conns : Closing(c)
    \/ \E c \in Conns : Close(c)
    \/ \E f \in WatchedFiles : FsWatch(f)
    \/ Tick
    \/ \E t \in timers : TimerFire(t)

SpecWatch == Init /\ [][NextWatch]_vars

\* Messages as the terminal client sends them, and four it never sends.
WireKeys   == {<<108>>, <<233>>}                  \* "l" and e-acute
WireChunks == {<<104, 105>>, <<233>>}             \* "hi" and e-acute
WireCols   == {0, 120}
WireRows   == {-1, 40}                            \* -1: the message has no rows
ResizeObject(cols, rows) ==
    <<StrField(TYPE, RESIZE), NumField(COLS, cols)>>
      \o (IF rows < 0 THEN <<>> ELSE <<NumField(ROWS, rows)>>)
WireStart  == controlMessage(<<StrField(TYPE, START)>>)
WireClose  == controlMessage(<<StrField(TYPE, CLOSE)>>)
\* keystrokes, and a frame that ends after the first byte of e-acute
WireData   == {dataMessage(k) : k \in WireKeys} \cup {<<DATA_BYTE, 195>>}
WireResize == {controlMessage(ResizeObject(cols, rows)) : cols \in WireCols, rows \in WireRows}
WireDropped ==
    { <<>>,                                                    \* zero-length
      <<2, 104>>,                                              \* discriminant 0x02
      <<CONTROL_BYTE, 123, 34, 116>>,                          \* {"t
      controlMessage(<<StrField(TYPE, <<110, 111>>)>>) }       \* {"type":"no"}

\* ws.on("message") with the bytes of a message
Message(c, raw, ok, sync) ==
    /\ ready[c] = "open"
    /\ Dispatch(request(raw), c, currentPty, TRUE)
    /\ Commit(onMessage(State, c, raw, ok, sync))
    /\ UNCHANGED <<fileChangeTimer, timers>>

\* The server with its messages arriving as bytes.
NextWire ==
    \/ nEvents < MaxWireEvents /\ Connection
    \/ \E c \in Conns : nEvents < MaxWireEvents /\ Closing(c)
    \/ \E c \in Conns : nEvents < MaxWireEvents /\ Close(c)
    \/ \E c \in Conns, ok \in BOOLEAN :
          nEvents < MaxWireEvents /\ Message(c, WireStart, ok, TRUE)
    \/ \E c \in Conns, sync \in BOOLEAN :
          nEvents < MaxWireEvents /\ Message(c, WireClose, TRUE, sync)
    \/ \E c \in Conns, raw \in WireData \cup WireResize \cup WireDropped :
          nEvents < MaxWireEvents /\ Message(c, raw, TRUE, TRUE)
    \/ \E p \in Pids : nEvents < MaxWireEvents /\ PtyExit(p)
    \/ \E p \in Pids, d \in WireChunks : nEvents < MaxWireEvents /\ PtyData(p, d)

SpecWire == Init /\ [][NextWire]_vars

\* The objects the encoders are given: every message of the protocol.
Objects ==
    {<<StrField(TYPE, ty)>> : ty \in TypeNames}
      \cup {<<StrField(TYPE, FILE_CHANGED), StrField(FILE, f)>> : f \in Strs}
      \cup {<<StrField(TYPE, RESIZE), NumField(COLS, c), NumField(ROWS, r)>> :
                c \in ColsIn \cup {DefaultCols}, r \in RowsIn}

\* The codec on its own: a string or an object is encoded as the senders
\* encode it and decoded as the message handler decodes it.
InitCodec ==
    /\ currentPty = 0
    /\ activeWs = 0
    /\ procs = [p \in Pids |-> NoProc]
    /\ ready = [c \in Conns |-> "none"]
    /\ sent = [c \in Conns |-> <<>>]
    /\ fileChangeTimer = 0
    /\ timers = {}
    /\ nEvents = 0
    /\ last = Event("none", 0, 0, TRUE)
    /\ failed = FALSE
    /\ codec \in {[NoMessage EXCEPT !.phase = "input", !.kind = DATA_BYTE, !.str = p] :
                      p \in Strs}
                 \cup {[NoMessage EXCEPT !.phase = "input", !.kind = CONTROL_BYTE, !.obj = o] :
                           o \in Objects}
    /\ panel = Panel0
    /\ socks = [k \in Socks |-> "none"]
    /\ editor = Editor0

Encode ==
    /\ codec.phase = "input"
    /\ codec' = [codec EXCEPT !.phase = "wire",
                              !.wire = IF codec.kind = DATA_BYTE
                                       THEN dataMessage(codec.str)
                                       ELSE controlMessage(codec.obj)]
    /\ UNCHANGED <<currentPty, activeWs, procs, ready, sent, fileChangeTimer, timers, nEvents,
                   last, failed, panel, socks, editor>>

Decode ==
    /\ codec.phase = "wire"
    /\ codec' = [codec EXCEPT !.phase = "done", !.out = decode(codec.wire)]
    /\ UNCHANGED <<currentPty, activeWs, procs, ready, sent, fileChangeTimer, timers, nEvents,
                   last, failed, panel, socks, editor>>

NextCodec == Encode \/ Decode

SpecCodec == InitCodec /\ [][NextCodec]_vars

\* ----------------------------------------------------------------- browser
\* Frames the server may send to the panel.
PanelFrames ==
    {Ctl("session-active"), Ctl("session-inactive"), Ctl("exit"),
     ControlFrame("file-changed", <<97, 46, 109, 100>>), DataFrame(<<104, 105>>)}

\* The panel has handled, in order, the frames of a sequence.
RECURSIVE receiveAll(_, _)
receiveAll(t, frames) ==
    IF frames = <<>> THEN t ELSE receiveAll(onmessage(t, Head(frames)), Tail(frames))

\* The TerminalPanel is mounted: its connection effect has run connect().
Mounted == connect([panel |-> Panel0, socks |-> [k \in Socks |-> "none"], editor |-> Editor0])

InitPanel ==
    /\ currentPty = 0
    /\ activeWs = 0
    /\ procs = [p \in Pids |-> NoProc]
    /\ ready = [c \in Conns |-> "none"]
    /\ sent = [c \in Conns |-> <<>>]
    /\ fileChangeTimer = 0
    /\ timers = {}
    /\ nEvents = 0
    /\ last = Event("init", 0, 0, TRUE)
    /\ failed = FALSE
    /\ codec = NoMessage
    /\ panel = Mounted.panel
    /\ socks = Mounted.socks
    /\ editor = Mounted.editor

\* The connection is established: ws.onopen
SockOpen(k) ==
    /\ socks[k] = "connecting"
    /\ Show(onopen(Run([Tab EXCEPT !.socks[k] = "open"], "open")))

\* The connection fails, is lost or has finished closing: ws.onclose
SockClose(k) ==
    /\ socks[k] # "none"
    /\ Show(onclose(Run([Tab EXCEPT !.socks[k] = "none"], "close")))

\* A frame arrives: ws.onmessage
SockMessage(k, frame) ==
    /\ socks[k] = "open"
    /\ panel.loading < MaxLoading
    /\ Show(onmessage(Run(Tab, "message"), frame))

\* The emulator modules have loaded: one waiting ensureTerminal goes on.
ModulesLoaded ==
    /\ panel.loading > 0
    /\ Show(resume(Run(Tab, "loaded")))

\* React commits a render: the container exists exactly while the rendered
\* sessionActive is true (part_003:302-321).
Render ==
    /\ ~panel.unmounted
    /\ panel.containerRef # panel.sessionActive
    /\ panel' = [panel EXCEPT !.containerRef = panel.sessionActive]
    /\ UNCHANGED <<currentPty, activeWs, procs, ready, sent, fileChangeTimer, timers, nEvents,
                   last, failed, codec, socks, editor>>

\* The user clicks "Start Claude Session", shown while no Session is rendered.
ClickStart ==
    /\ ~panel.unmounted
    /\ ~panel.containerRef
    /\ Show(handleStart(Run(Tab, "start")))

\* The user clicks "Stop session", shown while a Session is rendered.
ClickStop ==
    /\ ~panel.unmounted
    /\ panel.containerRef
    /\ Show(handleStop(Run(Tab, "stop")))

\* The user types into the emulator.
Key(data) ==
    /\ ~panel.unmounted
    /\ panel.termRef
    /\ Show(onKey(Run(Tab, "key"), data))

\* The container changes its size.
Observed ==
    /\ ~panel.unmounted
    /\ panel.resizeObserverRef
    /\ Show(onObserved(Run(Tab, "observed")))

\* The component is unmounted: the effect's cleanup runs and React empties
\* the container ref.
Unmount ==
    /\ ~panel.unmounted
    /\ Show([cleanup(Run(Tab, "unmount")) EXCEPT !.panel.containerRef = FALSE,
                                                 !.panel.unmounted = TRUE])

\* The browser's clock advances by one tick; a timeout that is due runs
\* before the clock advances again.
ClockTick ==
    /\ panel.pending # {}
    /\ \A tm \in panel.pending : tm.left > 0
    /\ panel' = [panel EXCEPT !.pending = {[tm EXCEPT !.left = @ - 1] : tm \in panel.pending}]
    /\ UNCHANGED <<currentPty, activeWs, procs, ready, sent, fileChangeTimer, timers, nEvents,
                   last, failed, codec, socks, editor>>

\* A reconnect timeout runs: connect()
ReconnectFire(tm) ==
    /\ tm \in panel.pending
    /\ tm.left = 0
    /\ FreeSocks(Tab) # {}
    /\ Show(connect(Run([Tab EXCEPT !.panel.pending = @ \ {tm}], "timer")))

\* The user edits the document: handleChange
Edit(text) ==
    /\ text # editor.doc
    /\ editor' = handleChange([editor EXCEPT !.refreshes = 0], text)
    /\ UNCHANGED <<currentPty, activeWs, procs, ready, sent, fileChangeTimer, timers, nEvents,
                   last, failed, codec, panel, socks>>

\* The user saves (the button shown while the editor is dirty and enabled
\* while no save is under way, or Ctrl+S): handleSave runs up to its fetch.
Save ==
    /\ editor.dirtyRef
    /\ ~editor.saving
    /\ editor' = handleSave([editor EXCEPT !.refreshes = 0])
    /\ UNCHANGED <<currentPty, activeWs, procs, ready, sent, fileChangeTimer, timers, nEvents,
                   last, failed, codec, panel, socks>>

\* The fetch of handleSave settles.
Saved(ok) ==
    /\ editor.saving
    /\ editor' = onSaved([editor EXCEPT !.refreshes = 0], ok)
    /\ UNCHANGED <<currentPty, activeWs, procs, ready, sent, fileChangeTimer, timers, nEvents,
                   last, failed, codec, panel, socks>>

\* router.refresh() has re-rendered the page: the content prop is the file.
Refreshed ==
    /\ editor.refresh
    /\ editor' = onContent([editor EXCEPT !.refresh = FALSE, !.refreshes = 0], editor.disk)
    /\ UNCHANGED <<currentPty, activeWs, procs, ready, sent, fileChangeTimer, timers, nEvents,
                   last, failed, codec, panel, socks>>

\* The file is changed on disk by someone else.
DiskChange(text) ==
    /\ text # editor.disk
    /\ editor' = [editor EXCEPT !.disk = text, !.refreshes = 0]
    /\ UNCHANGED <<currentPty, activeWs, procs, ready, sent, fileChangeTimer, timers, nEvents,
                   last, failed, codec, panel, socks>>

\* The terminal panel and what it is connected to.
NextPanel ==
    \/ \E k \in Socks : SockOpen(k)
    \/ \E k \in Socks : SockClose(k)
    \/ \E k \in Socks, f \in PanelFrames : SockMessage(k, f)
    \/ ModulesLoaded
    \/ Render
    \/ ClickStart
    \/ ClickStop
    \/ \E d \in Keys : Key(d)
    \/ Observed
    \/ Unmount
    \/ ClockTick
    \/ \E tm \in panel.pending : ReconnectFire(tm)

SpecPanel == InitPanel /\ [][NextPanel]_vars

\* The same where the browser runs what is ready to run: the clock advances,
\* due timeouts run, renders are committed and module loads settle.
FairPanel ==
    /\ SpecPanel
    /\ WF_vars(ClockTick)
    /\ WF_vars(\E tm \in panel.pending : ReconnectFire(tm))
    /\ WF_vars(Render)
    /\ WF_vars(ModulesLoaded)

\* The editor, the file and the panel's relay of file-changed frames.
NextEditor ==
    \/ \E k \in Socks : SockOpen(k)
    \/ \E k \in Socks : SockMessage(k, ControlFrame("file-changed", <<97, 46, 109, 100>>))
    \/ \E text \in UserTexts : Edit(text)
    \/ Save
    \/ \E ok \in BOOLEAN : Saved(ok)
    \/ Refreshed
    \/ \E text \in DiskTexts : DiskChange(text)

SpecEditor == InitPanel /\ [][NextEditor]_vars

TypeOK ==
    /\ currentPty \in 0..MaxProcs
    /\ activeWs \in 0..MaxConns
    /\ nEvents \in 0..MaxEvents

\* ------------------------------------------------------------ properties
Active   == Ctl("session-active")
Inactive == Ctl("session-inactive")
Exit     == Ctl("exit")

\* The step dispatches the handler op.
Handled(op) == nEvents' = nEvents + 1 /\ last'.op = op

\* The frames the step sends on connection c.
Added(c) == SubSeq(sent'[c], Len(sent[c]) + 1, Len(sent'[c]))

\* The processes that have been spawned and have neither exited nor been
\* sent a kill signal.
LiveProcs == {p \in Pids : procs[p].st = "alive" /\ ~procs[p].killed}

\* The connection accepted last (0 before the first one).
MostRecent == Cardinality({c \in Conns : ready[c] # "none"})

\* C1: at most one Session, and never two spawned processes at once that have
\* neither exited nor been sent a kill signal.
C1_AtMostOneLiveProcess ==
    /\ currentPty \in 0..MaxProcs
    /\ Cardinality(LiveProcs) <= 1

\* C2: a RUNNING Session becomes ABSENT (or another Session) only by a close
\* request or by the exit of its own process; the exit callback of a process
\* that is not the Session's leaves the Session as it is.
C2_SessionEndsOnlyByStopOrOwnExit ==
    [][(currentPty # 0 /\ currentPty' # currentPty)
         => \/ Handled("close")
            \/ Handled("exit") /\ last'.p = currentPty]_vars

\* C3: a start request received while a Session is RUNNING spawns nothing,
\* keeps the Session's process and is answered with one session-active frame
\* on the requesting connection.
C3_StartWhileRunningIsNoOp ==
    [][(Handled("start") /\ currentPty # 0)
         => /\ currentPty' = currentPty
            /\ procs' = procs
            /\ sent' = [sent EXCEPT ![last'.c] = Append(@, Active)]]_vars

C3_Witness ==
    /\ last.op = "start" /\ last.p # 0 /\ currentPty = last.p
    /\ activeWs # 0 /\ last.c # activeWs

\* C4: the Session's process is never one that stop() was called on, and a
\* start that creates a Session creates it on a process that did not exist
\* before.
C4_NoResurrection ==
    /\ [](currentPty # 0 => ~procs[currentPty].killed)
    /\ [][(Handled("start") /\ currentPty = 0 /\ currentPty' # 0)
            => procs[currentPty'].st = "none" /\ procs'[currentPty'].st = "alive"]_vars

C4_Witness ==
    /\ last.op = "start" /\ last.p = 0 /\ currentPty # 0
    /\ \E p \in Pids : p # currentPty /\ procs[p].killed

\* C5: the first frame sent on an accepted connection is the state report,
\* session-active exactly when a Session exists when the connection is
\* accepted, and the connection handler sends that frame alone.
C5_FirstFrameIsStateReport ==
    /\ [](\A c \in Conns : ready[c] # "none"
            => Len(sent[c]) >= 1 /\ sent[c][1] \in {Active, Inactive})
    /\ [][Handled("connection")
            => /\ sent[last'.c] = <<>>
               /\ sent'[last'.c] = <<IF currentPty # 0 THEN Active ELSE Inactive>>]_vars

C5_Witness ==
    \E c \in Conns : /\ Len(sent[c]) >= 2
                     /\ sent[c][1] = Active
                     /\ sent[c][2].kind = DATA_BYTE

\* C6: the Active Connection pointer is empty or the connection accepted
\* last; accepting a connection makes it the Active Connection, closing the
\* Active Connection empties the pointer, closing a superseded connection
\* leaves the pointer where it is.
C6_ActiveIsMostRecent ==
    /\ [](activeWs = 0 \/ activeWs = MostRecent)
    /\ [][Handled("connection") => activeWs' = last'.c]_vars
    /\ [][Handled("wsclose")
            => activeWs' = IF activeWs = last'.c THEN 0 ELSE activeWs]_vars

C6_Witness ==
    /\ last.op = "wsclose" /\ activeWs # 0 /\ last.c # activeWs
    /\ ready[activeWs] = "open"

\* C7: a step that accepts a connection or closes one leaves the Session and
\* its process as they are and sends no exit frame; while a Session is
\* RUNNING it sends no session-inactive frame either, a close sends nothing
\* at all, and an accept sends session-active.
C7_ConnectionsLeaveSession ==
    [][(ready' # ready)
         => /\ currentPty' = currentPty
            /\ procs' = procs
            /\ \A c \in Conns : \A i \in 1..Len(Added(c)) :
                  /\ Added(c)[i] # Exit
                  /\ currentPty # 0 => Added(c)[i] = Active
            /\ ~Handled("connection") => sent' = sent]_vars

C7_Witness ==
    /\ ready[1] = "closed" /\ ready[2] = "open"
    /\ sent[1] = <<Inactive, Active>>
    /\ sent[2] = <<Active>>
    /\ currentPty = 1 /\ LiveProcs = {1}

\* C8: a start request is answered on its connection with exactly one
\* control frame: session-active if a Session exists after the start call,
\* exit otherwise.
C8_StartAnsweredOnce ==
    [][Handled("start")
         => sent'[last'.c] =
              Append(sent[last'.c], IF currentPty' # 0 THEN Active ELSE Exit)]_vars

\* C9: when pty.spawn throws, no Session and no process exist afterwards,
\* the connections and the Active Connection pointer are as before, and the
\* Session Manager is ABSENT, which is what a later start needs to spawn.
C9_SpawnFailureLeavesAbsent ==
    [][(Handled("start") /\ ~last'.ok)
         => /\ currentPty = 0 /\ currentPty' = 0
            /\ procs' = procs
            /\ ready' = ready
            /\ activeWs' = activeWs]_vars

C9_Witness ==
    /\ failed
    /\ last.op = "start" /\ last.ok /\ last.p = 0
    /\ currentPty # 0 /\ procs[currentPty].st = "alive"

\* C10: once a close request is handled the Session is ABSENT, whether or
\* not the process's exit callback has run, and the last frame sent on the
\* requesting connection is session-inactive; with no Session the request
\* kills nothing and sends that frame alone.
C10_CloseLeavesAbsent ==
    [][Handled("close")
         => /\ currentPty' = 0
            /\ Len(Added(last'.c)) >= 1
            /\ Added(last'.c)[Len(Added(last'.c))] = Inactive
            /\ currentPty # 0 => procs'[currentPty].killed
            /\ currentPty = 0
                 => /\ procs' = procs
                    /\ sent' = [sent EXCEPT ![last'.c] = Append(@, Inactive)]]_vars

C10_Witness ==
    /\ last.op = "close" /\ last.p # 0
    /\ procs[last.p].st = "alive" /\ procs[last.p].killed
    /\ currentPty = 0
    /\ sent[last.c][Len(sent[last.c])] = Inactive

\* C11: ending a Session by a close request sends no exit frame: neither the
\* close handler (when the exit callback runs inside kill()) nor the later
\* exit callback of a process that stop() has killed sends exit on any
\* connection.
C11_StopSendsNoExit ==
    [][(Handled("close") \/ (Handled("exit") /\ procs[last'.p].killed))
         => \A c \in Conns : \A i \in 1..Len(Added(c)) : Added(c)[i] # Exit]_vars

\* C12: when the Session's process exits without having been killed, the
\* Session becomes ABSENT; exactly one exit frame is sent, to the Active
\* Connection, if that connection is open, and no frame at all if there is
\* no Active Connection.
C12_OwnExitReportsExit ==
    [][(Handled("exit") /\ last'.p = currentPty /\ ~procs[currentPty].killed)
         => /\ currentPty' = 0
            /\ procs'[last'.p].st = "exited"
            /\ sent' = IF activeWs # 0 /\ ready[activeWs] = "open"
                       THEN [sent EXCEPT ![activeWs] = Append(@, Exit)]
                       ELSE sent]_vars

C12_Witness ==
    /\ last.op = "exit" /\ last.p = 1
    /\ procs[1].st = "exited" /\ ~procs[1].killed /\ procs[2].st = "none"
    /\ currentPty = 0
    /\ activeWs # 0 /\ sent[activeWs][Len(sent[activeWs])] = Exit

FileChanged(f) == ControlFrame("file-changed", f)

\* The file-changed frames among the frames sent on c.
Notices(c) == {i \in 1..Len(sent[c]) : sent[c][i].type = "file-changed"}

\* C19: a burst of .md events yields one file-changed frame: at most one
\* timeout is pending; an .md event discards the pending timeout and starts
\* a full window for its own file; any other event leaves the pending
\* timeout and its remaining time alone; neither sends a frame; the timeout
\* runs when its window has passed and sends one frame, naming its file with
\* "/" separators, to the Active Connection if that is open.
C19_BurstYieldsOneNotice ==
    /\ [](Cardinality(timers) <= 1)
    /\ [][\A f \in WatchedFiles : FsWatch(f)
            => /\ sent' = sent
               /\ timers' = IF Len(f) > 0 /\ endsWithMd(f)
                            THEN {[id |-> fileChangeTimer', file |-> f,
                                   left |-> WindowTicks, unheard |-> activeWs = 0]}
                            ELSE timers]_vars
    /\ [][\A t \in timers : TimerFire(t)
            => /\ t.left = 0
               /\ timers' = {}
               /\ sent' = IF activeWs # 0 /\ ready[activeWs] = "open"
                          THEN [sent EXCEPT ![activeWs] =
                                  Append(@, FileChanged(slashes(t.file)))]
                          ELSE sent]_vars

C19_Witness ==
    /\ nEvents = 4 /\ last.op = "timer"
    /\ sent[1] = <<Inactive, FileChanged(<<100, 47, 97, 46, 109, 100>>)>>
    /\ timers = {}

\* C20 as claimed: the timeout of a change event that was handled while
\* there was no Active Connection sends nothing.
C20_UnheardChangeNeverSent ==
    [][\A t \in timers : (TimerFire(t) /\ t.unheard) => sent' = sent]_vars

\* C20 as amended: a timeout that runs while there is no Active Connection
\* sends nothing and is gone, and file-changed frames are sent by running
\* timeouts alone, so no connection accepted later receives the notice.
C20_NoticeDroppedWithoutActive ==
    /\ [][\A t \in timers : (TimerFire(t) /\ activeWs = 0)
            => sent' = sent /\ timers' = timers \ {t}]_vars
    /\ [][~Handled("timer")
            => \A c \in Conns : \A i \in 1..Len(Added(c)) :
                  Added(c)[i].type # "file-changed"]_vars

C20_Witness ==
    /\ last.op = "connection"
    /\ fileChangeTimer # 0 /\ timers = {}
    /\ \A c \in Conns : Notices(c) = {}
    /\ sent[last.c] = <<Inactive>>

\* ------------------------------------------------------------------ C17
\* C17: encoding then decoding is the identity.  For every payload p (a
\* well-formed string, as the terminal and the process produce them) the
\* DATA frame is the byte 0x00 followed by the bytes of p and decodes to
\* (DATA, p); for every object o of the protocol the CONTROL frame is the byte
\* 0x01 followed by the bytes of its JSON text and decodes to (CONTROL, o).
C17_RoundTrip ==
    /\ codec.phase \in {"wire", "done"}
         => codec.wire = <<codec.kind>> \o utf8Bytes(IF codec.kind = DATA_BYTE
                                                     THEN codec.str
                                                     ELSE stringify(codec.obj))
    /\ codec.phase = "done"
         => /\ codec.out.type = codec.kind
            /\ codec.out.ok
            /\ codec.out.str = codec.str
            /\ codec.out.obj = codec.obj

\* A file-changed message whose file name holds a two-byte character and a
\* quote has gone through the encoder and the decoder.
C17_Witness ==
    /\ codec.phase = "done"
    /\ codec.kind = CONTROL_BYTE
    /\ codec.obj = <<StrField(TYPE, FILE_CHANGED), StrField(FILE, <<233, 34>>)>>
    /\ Len(codec.wire) = 1 + Len(stringify(codec.obj)) + 1
    /\ codec.out.obj = codec.obj

\* ------------------------------------------------------------------ C13
\* C13: a resize control frame sets the dimensions of the Session's terminal
\* to exactly (cols, rows) when both are present and truthy and a Session
\* exists; when cols is 0 or rows is missing, or no Session exists, every
\* terminal keeps its dimensions; no frame is sent in any of these cases.
C13_ResizeSetsDimensions ==
    [][\A c \in Conns, cols \in WireCols, rows \in WireRows :
          Message(c, controlMessage(ResizeObject(cols, rows)), TRUE, TRUE)
            => /\ sent' = sent
               /\ currentPty' = currentPty
               /\ procs' = IF cols > 0 /\ rows > 0 /\ currentPty # 0
                           THEN [procs EXCEPT ![currentPty].cols = cols,
                                              ![currentPty].rows = rows]
                           ELSE procs]_vars

\* A resize message has just given the Session's terminal 120 columns and 40
\* rows.
C13_Witness ==
    /\ last.op = "resize"
    /\ currentPty # 0
    /\ procs[currentPty].cols = 120
    /\ procs[currentPty].rows = 40
    /\ sent[last.c] = <<Inactive, Active>>

\* ------------------------------------------------------------------ C14
\* C14: while the Session is ABSENT, an inbound DATA frame and an inbound
\* resize control frame change neither the Session nor the Active Connection
\* pointer, send no frame to any connection, spawn no process and leave every
\* connection as it is (the handler has no path on which it throws).
C14_AbsentIgnoresInput ==
    [][\A c \in Conns, raw \in WireData \cup WireResize :
          (currentPty = 0 /\ Message(c, raw, TRUE, TRUE))
            => UNCHANGED <<currentPty, activeWs, procs, ready, sent, failed>>]_vars

\* A DATA frame has just been handled on a connection that was told there is
\* no Session, and no process has ever been spawned.
C14_Witness ==
    /\ last.op = "input"
    /\ last.p = 0
    /\ currentPty = 0
    /\ sent[last.c] = <<Inactive>>
    /\ \A p \in Pids : procs[p].st = "none"

\* ------------------------------------------------------------------ C15
\* C15: while a Session is RUNNING, every inbound DATA frame causes exactly
\* one write to the Session's process, and the bytes written are the frame's
\* payload; the write comes after the writes of the frames that arrived
\* before it, and nothing else writes to a process, so no write is dropped,
\* merged or duplicated.
C15_DataWrittenInOrder ==
    /\ [][\A c \in Conns, raw \in WireData :
             (currentPty # 0 /\ Message(c, raw, TRUE, TRUE))
               => /\ currentPty' = currentPty
                  /\ \E w \in {toString(Tail(raw))} \cup WireKeys :
                        /\ utf8Bytes(w) = Tail(raw)
                        /\ procs' = [procs EXCEPT ![currentPty].input = Append(@, w)]]_vars
    /\ [][(\E p \in Pids : procs'[p].input # procs[p].input)
             => \E c \in Conns, raw \in WireData : Message(c, raw, TRUE, TRUE)]_vars

\* ------------------------------------------------------------------ C16
\* C16: while a connection is Active and open, every output chunk of the
\* Session's process is sent to it as exactly one DATA frame whose payload
\* is the chunk, after the frames sent before it; nothing else sends a DATA
\* frame.
C16_OutputForwardedInOrder ==
    /\ [][\A p \in Pids, d \in WireChunks :
             (PtyData(p, d) /\ p = currentPty /\ activeWs # 0 /\ ready[activeWs] = "open")
               => /\ sent' = [sent EXCEPT ![activeWs] = Append(@, DataFrame(d))]
                  /\ decode(dataMessage(d)).type = DATA_BYTE
                  /\ decode(dataMessage(d)).str = d]_vars
    /\ [][(\E c \in Conns : \E i \in 1..Len(Added(c)) : Added(c)[i].kind = DATA_BYTE)
             => \E p \in Pids, d \in WireChunks : PtyData(p, d)]_vars

\* The chunks "hi" and e-acute have reached the Active Connection as two DATA
\* frames in that order.
C16_Witness ==
    /\ last.op = "data"
    /\ activeWs # 0
    /\ sent[activeWs] = <<Inactive, Active, DataFrame(<<104, 105>>), DataFrame(<<233>>)>>

\* ------------------------------------------------------------------ C18
\* C18: an inbound message that is zero-length, has a discriminant other
\* than DATA or CONTROL, is a CONTROL frame with malformed JSON or is a
\* CONTROL frame with an unrecognized type is dropped: the Session and the
\* Active Connection pointer are unchanged, no frame is sent, and every
\* connection, the one it came on included, stays as it is, so that its
\* later frames are handled.
C18_DroppedMessages ==
    [][\A c \in Conns, raw \in WireDropped :
          Message(c, raw, TRUE, TRUE)
            => UNCHANGED <<currentPty, activeWs, procs, ready, sent, failed,
                           fileChangeTimer, timers>>]_vars

\* A message has just been dropped on the connection that started the running
\* Session; the connection is still open.
C18_Witness ==
    /\ last.op = "ignored"
    /\ currentPty # 0
    /\ procs[currentPty].st = "alive"
    /\ ready[last.c] = "open"
    /\ sent[last.c] = <<Inactive, Active>>

\* ------------------------------------------------------------------ C21
\* C21: as long as the bridge has not been torn down, every close of its
\* WebSocket is eventually followed by a new connection attempt, made by the
\* reconnect timeout; a failed attempt is a close like any other, so this
\* holds for any number of failures in a row.
C21_ReconnectsAfterEveryClose ==
    (panel.op = "close" /\ ~panel.unmounted)
      ~> (panel.unmounted
            \/ (panel.op = "timer" /\ panel.wsRef # 0 /\ socks[panel.wsRef] = "connecting"))

\* The reconnect timeout has just made a new connection attempt.
C21_Witness ==
    /\ panel.op = "timer"
    /\ ~panel.unmounted
    /\ ~panel.connected
    /\ panel.pending = {}
    /\ panel.wsRef # 0
    /\ socks[panel.wsRef] = "connecting"

\* ------------------------------------------------------------------ C22
\* C22: once the component is unmounted no WebSocket is opened any more,
\* whether a reconnect timeout was pending, the socket was open, or the
\* socket's close event arrives after the unmount.
C22_NoSocketAfterTeardown ==
    [][panel'.unmounted
         => \A k \in Socks : socks'[k] = "connecting" => socks[k] = "connecting"]_vars

\* The close event of the socket that was open at the unmount has arrived,
\* and nothing is left: no socket, no timeout.
C22_Witness ==
    /\ panel.unmounted
    /\ panel.op = "close"
    /\ panel.pending = {}
    /\ \A k \in Socks : socks[k] = "none"

\* ------------------------------------------------------------------ C23
\* C23: whenever the panel has received session-active while it holds no
\* emulator, an emulator is eventually constructed and attached to the
\* container (unless the Session ends or the component is unmounted first),
\* and a DATA frame that arrives while the Session is shown is written to an
\* emulator; the same for a Session started after the user has stopped one.
C23_EmulatorEventuallyBuilt ==
    (panel.op = "message" /\ panel.sessionActive /\ ~panel.termRef /\ ~panel.unmounted)
      ~> (panel.termRef \/ ~panel.sessionActive \/ panel.unmounted)

\* ------------------------------------------------------------------ C24
\* C24: on the panel, session-inactive, exit, a close of the WebSocket and
\* a reconnect leave the emulator, its fit addon and its resize observer as
\* they are; an emulator or an observer goes away only in the step in which
\* the user clicks Stop.
C24_OnlyStopDisposes ==
    /\ [][(\E k \in Socks : \/ SockMessage(k, Ctl("session-inactive"))
                            \/ SockMessage(k, Ctl("exit"))
                            \/ SockClose(k)
                            \/ SockOpen(k))
            \/ (\E tm \in panel.pending : ReconnectFire(tm))
          => /\ panel'.termRef = panel.termRef
             /\ panel'.fitAddonRef = panel.fitAddonRef
             /\ panel'.resizeObserverRef = panel.resizeObserverRef
             /\ panel'.terms = panel.terms
             /\ panel'.observers = panel.observers]_vars
    /\ [][(\/ panel.termRef /\ ~panel'.termRef
           \/ panel.resizeObserverRef /\ ~panel'.resizeObserverRef
           \/ panel'.terms < panel.terms
           \/ panel'.observers < panel.observers) => ClickStop]_vars

\* The Session has ended by itself: the panel shows no Session any more and
\* still holds the emulator and the observer.
C24_Witness ==
    /\ panel.op = "message"
    /\ ~panel.sessionActive
    /\ panel.termRef
    /\ panel.resizeObserverRef
    /\ panel.terms = 1

\* ------------------------------------------------------------------ C25
\* C25: when the user clicks Stop while the socket is open, the handler
\* sends exactly one close control frame and, in the same step, disconnects
\* the resize observer and disposes the emulator: both handles are empty
\* and no emulator and no observer is left.
C25_StopSendsCloseAndDisposes ==
    [][(ClickStop /\ panel.wsRef # 0 /\ socks[panel.wsRef] = "open")
         => /\ panel'.out = <<Ctl("close")>>
            /\ ~panel'.termRef
            /\ ~panel'.fitAddonRef
            /\ ~panel'.resizeObserverRef
            /\ panel'.terms = 0
            /\ panel'.observers = 0
            /\ panel'.sessionActive = panel.sessionActive]_vars

\* The user has just stopped the Session: the close frame is sent, the server
\* has not answered yet, and the emulator is gone.
C25_Witness ==
    /\ panel.op = "stop"
    /\ panel.out = <<Ctl("close")>>
    /\ panel.sessionActive
    /\ panel.termModulesRef
    /\ ~panel.termRef
    /\ ~panel.resizeObserverRef

\* ------------------------------------------------------------------ C29
\* C29: the panel has at most one emulator and at most one resize observer
\* at any time, exactly the ones its refs hold, also when calls of
\* ensureTerminal overlap because the emulator modules are still loading.
C29_AtMostOneEmulator ==
    /\ panel.terms = (IF panel.termRef THEN 1 ELSE 0)
    /\ panel.observers = (IF panel.resizeObserverRef THEN 1 ELSE 0)

\* Of two calls of ensureTerminal that waited for the modules, one has built
\* the emulator and the other is still waiting.
C29_Witness ==
    /\ panel.op = "loaded"
    /\ panel.loading = 1
    /\ panel.termRef
    /\ panel.terms = 1

\* ------------------------------------------------------------------ C30
\* C30: the panel has at most one WebSocket that is connecting or open and
\* at most one pending reconnect timeout, and never both; a socket is
\* created only when every earlier one has closed.
C30_OneSocketOrOneTimer ==
    /\ [](Cardinality({k \in Socks : socks[k] \in {"connecting", "open"}})
            + Cardinality(panel.pending) <= 1)
    /\ [][\A k \in Socks : (socks'[k] = "connecting" /\ socks[k] # "connecting")
                              => \A j \in Socks : socks[j] = "none"]_vars

\* The socket has closed and the reconnect timeout is pending: there is no
\* socket at all.
C30_Witness ==
    /\ panel.op = "close"
    /\ ~panel.unmounted
    /\ Cardinality(panel.pending) = 1
    /\ \A k \in Socks : socks[k] = "none"

\* ------------------------------------------------------------------ C26
\* The editor holds text that was neither loaded from nor saved to the
\* server.
UnsavedEdits == editor.doc # editor.synced

\* C26: every file-changed control frame the panel receives is relayed as
\* one docs-file-changed event, and on such an event the editor asks for a
\* refresh only when it has no unsaved local edits; a refresh that arrives
\* replaces the editor's text only when it has no unsaved local edits.
C26_RefreshOnlyWhenClean ==
    /\ [][\A k \in Socks :
             SockMessage(k, ControlFrame("file-changed", <<97, 46, 109, 100>>))
               => /\ panel'.events = 1
                  /\ editor'.refreshes = 1 => ~UnsavedEdits]_vars
    /\ [][(Refreshed /\ editor'.doc # editor.doc) => ~UnsavedEdits]_vars

\* ------------------------------------------------------------------ C27
\* C27: whatever connects, takes over, asks for start or close on any open
\* connection, or exits: once the panel on the Active Connection has handled
\* every frame sent to it, its sessionActive is true exactly when the server
\* has a Session.
C27_ActivePanelKnowsSession ==
    (activeWs # 0 /\ ready[activeWs] = "open")
      => (receiveAll(Mounted, sent[activeWs]).panel.sessionActive <=> currentPty # 0)

\* ------------------------------------------------------------------ C28
\* C28: DATA frames, file-changed frames and the exit frames of a process
\* go to the connection that is the Active Connection when they are sent,
\* and to no other: a connection that is not the Active Connection gets
\* none of them, open or not, and none is sent when there is no Active
\* Connection.  (The exit frame that answers a failed start goes to the
\* connection that asked.)
C28_OutputOnlyToActive ==
    [][\A c \in Conns :
          c # activeWs
            => \A i \in 1..Len(Added(c)) :
                  /\ Added(c)[i].kind # DATA_BYTE
                  /\ Added(c)[i].type # "file-changed"
                  /\ Added(c)[i].type = "exit" => (Handled("start") /\ last'.c = c)]_vars

\* Connection 1 started the Session and was superseded by connection 2; it
\* is still open, and the output that followed went to connection 2 alone.
C28_Witness ==
    /\ last.op = "data"
    /\ activeWs = 2
    /\ ready[1] = "open"
    /\ sent[1] = <<Inactive, Active>>
    /\ sent[2] = <<Active, DataFrame(<<104, 105>>)>>

====
